---------------------------- MODULE Spec2Model ----------------------------
(***************************************************************************)
(* Model of src/src/api/providers/ollama.ts: the OllamaHandler provider    *)
(* adapter.  The file holds two variants of the class:                     *)
(*   variant 1 (lines 32-108):  strict model id check, 30 s default        *)
(*                              budget, always streaming, catch around     *)
(*                              the race only;                             *)
(*   variant 2 (lines 118-234): no model id check, 60 s default budget,    *)
(*                              streaming or single response, inner and    *)
(*                              outer catch.                               *)
(* The specifications of the module:                                       *)
(*   Spec               one adapter and one invocation of the body of      *)
(*                      createMessage (the async generator), with the      *)
(*                      transport request and the timer it starts;         *)
(*   SpecRetry          the method as variant 2 declares it, the body run  *)
(*                      again by the withRetry decorator after a failure;  *)
(*   SpecModel          getModel() alone, over the context-size settings;  *)
(*   SpecModelInFlight  getModel() called alongside one call;              *)
(*   SpecConcurrent     two calls in flight on the same adapter.           *)
(*                                                                         *)
(* Encoding.  A JavaScript value that may be undefined is a sequence of    *)
(* length 0 (undefined) or 1 (the value).  A string that the code only     *)
(* copies is a TLA+ string; an error message, which the code builds by     *)
(* interpolation and searches with includes(), is a sequence of string     *)
(* tokens; a string the code parses with Number() is a sequence of         *)
(* one-character strings.                                                  *)
(***************************************************************************)
EXTENDS Integers, Sequences, FiniteSets, TLC

None == <<>>
Some(v) == <<v>>
IsDefined(x) == Len(x) > 0

(***************************************************************************)
(* Bounds of the model.                                                    *)
(***************************************************************************)
\* The transport stream delivers at most this many chunks in one call.
MaxChunks == 3
\* The retry wrapper runs the body at most this many times in one call.
MaxAttempts == 2

(***************************************************************************)
(* Program constants.                                                      *)
(***************************************************************************)
DefaultTimeoutMsV1 == 30000
DefaultTimeoutMsV2 == 60000
CatchTimeoutMsV2 == 30000
FallbackCtxNum == 32768
DefaultBaseUrl == "http://localhost:11434"

(***************************************************************************)
(* Number(s) on the strings of the model: optional surrounding blanks, an  *)
(* optional sign, decimal digits.  The empty (or blank) string is 0, any   *)
(* other text is NaN, written None.                                        *)
(***************************************************************************)
Digits == {"0", "1", "2", "3", "4", "5", "6", "7", "8", "9"}

DigitValue(c) ==
    CASE c = "0" -> 0 [] c = "1" -> 1 [] c = "2" -> 2 [] c = "3" -> 3
      [] c = "4" -> 4 [] c = "5" -> 5 [] c = "6" -> 6 [] c = "7" -> 7
      [] c = "8" -> 8 [] c = "9" -> 9

RECURSIVE TrimStart(_)
TrimStart(s) ==
    IF Len(s) > 0 /\ Head(s) = " " THEN TrimStart(Tail(s)) ELSE s

RECURSIVE TrimEnd(_)
TrimEnd(s) ==
    IF Len(s) > 0 /\ s[Len(s)] = " " THEN TrimEnd(SubSeq(s, 1, Len(s) - 1)) ELSE s

RECURSIVE DecimalValue(_, _)
DecimalValue(s, acc) ==
    IF Len(s) = 0 THEN acc ELSE DecimalValue(Tail(s), acc * 10 + DigitValue(Head(s)))

AllDigits(s) == Len(s) > 0 /\ \A i \in 1..Len(s) : s[i] \in Digits

Number(s) ==
    LET t == TrimEnd(TrimStart(s))
    IN  IF Len(t) = 0 THEN Some(0)
        ELSE IF Head(t) = "-" /\ AllDigits(Tail(t)) THEN Some(0 - DecimalValue(Tail(t), 0))
        ELSE IF Head(t) = "+" /\ AllDigits(Tail(t)) THEN Some(DecimalValue(Tail(t), 0))
        ELSE IF AllDigits(t) THEN Some(DecimalValue(t, 0))
        ELSE None

\* Number(x) || fallback: NaN and 0 are falsy, every other number is kept.
NumberOr(s, fallback) ==
    LET n == Number(s)
    IN  IF IsDefined(n) /\ n[1] # 0 THEN n[1] ELSE fallback

(***************************************************************************)
(* Inputs: the configurations, the arguments and what the transport may    *)
(* deliver.                                                                *)
(***************************************************************************)
Variants == {1, 2}

ModelIds == {None, Some(""), Some("llama3")}
BaseUrls == {None, Some("http://remote:11434")}
TimeoutSettings == {None, Some(0), Some(5000)}
StreamingSettings == {None, Some(FALSE)}

CtxNumSettings ==
    { None,
      Some(<<>>),
      Some(<<" ">>),
      Some(<<"0">>),
      Some(<<"7">>),
      Some(<<"+", "7">>),
      Some(<<"-", "5">>),
      Some(<<"a", "b", "c">>),
      Some(<<"1", "2", "a">>),
      Some(<<" ", "4", "2", " ">>),
      Some(<<"3", "2", "7", "6", "8">>),
      Some(<<"1", "3", "1", "0", "7", "2">>) }

\* The imported record openAiModelInfoSaneDefaults, of which this file reads
\* the context window only; its value is set outside this file.
SaneDefaultsChoices == {[contextWindow |-> 32768], [contextWindow |-> 128000]}

SystemPrompts == {"", "You are helpful"}
MessageLists == {<<>>, <<[role |-> "user", content |-> "hi"]>>}

\* A transport chunk or response: {message: {content}, eval_count?, prompt_eval_count?}.
Chunk(content, promptEval, eval) ==
    [content |-> content, prompt_eval_count |-> promptEval, eval_count |-> eval]

TransportChunks ==
    { Chunk(Some("a"), None, None),
      Chunk(Some("b"), None, None),
      Chunk(None, Some(5), Some(3)),
      Chunk(Some(""), None, Some(3)),
      Chunk(None, Some(5), None),
      Chunk(None, None, None) }

\* An error object: message, code, cause (with code and message), status, statusCode.
ErrorObject(message, code, cause, status, statusCode) ==
    [message |-> message, code |-> code, cause |-> cause,
     status |-> status, statusCode |-> statusCode]

Cause(code, message) == [code |-> code, message |-> message]

\* new Error(message)
NewError(message) == ErrorObject(message, None, None, None, None)

TransportErrors ==
    { ErrorObject(<<"fetch failed">>, None,
                  Some(Cause(Some("ECONNREFUSED"), <<"connect ECONNREFUSED">>)), None, None),
      ErrorObject(<<"getaddrinfo ENOTFOUND">>, Some("ENOTFOUND"), None, None, None),
      ErrorObject(<<"Internal Server Error">>, None, None, Some(500), None),
      ErrorObject(<<"model not found">>, None, None, None, Some(404)),
      ErrorObject(<<"Service Unavailable">>, Some("ERR_BAD_RESPONSE"), None, Some(503), None),
      ErrorObject(<<"unexpected end of JSON input">>, None, None, None, None),
      ErrorObject(<<"socket ", "timed out">>, None, None, None, None),
      ErrorObject(<<>>, None, None, None, None) }

\* What the stream iterator may throw while it is consumed.
StreamErrors ==
    { ErrorObject(<<"fetch failed">>, None,
                  Some(Cause(Some("ECONNRESET"), <<"read ECONNRESET">>)), None, None),
      ErrorObject(<<"socket ", "timed out">>, None, None, None, None),
      ErrorObject(<<>>, None, None, None, None) }

\* What the transport does in the runs with two calls, or with getModel()
\* called alongside a call.
ConcurrentChunks == { Chunk(Some("a"), None, None), Chunk(None, Some(5), Some(3)) }
ConcurrentError == ErrorObject(<<"Internal Server Error">>, None, None, Some(500), None)

(***************************************************************************)
(* State.                                                                  *)
(***************************************************************************)
VARIABLES
    variant,       \* which of the two classes of the file the adapter is
    options,       \* this.options, fixed at construction
    saneDefaults,  \* the imported openAiModelInfoSaneDefaults
    args,          \* systemPrompt and messages of the invocation
    pc,            \* position of the generator body
    request,       \* the argument of client.chat(), None before it is called
    timeoutMs,     \* the local timeoutMs the timer was armed with
    timer,         \* "none", "armed", "fired"
    apiState,      \* apiPromise: "none", "pending", "resolved", "rejected"
    apiResponse,   \* the single response apiPromise resolved with (stream: false)
    apiError,      \* the error apiPromise rejected with
    winner,        \* which promise settled Promise.race: "none", "request", "timer"
    consumed,      \* the transport chunks taken from the stream so far
    cur,           \* the chunk or response being processed
    emitted,       \* the chunks yielded to the caller so far
    error,         \* the error createMessage has thrown to the caller
    pulls,         \* how many times the caller has asked the generator for a chunk
    chatCalls,     \* how many times this invocation has called client.chat()
    swallowed,     \* how many errors of the body the retry wrapper has caught
    current,       \* which of two concurrent calls the variables above describe
    other,         \* the state of the other call on the same adapter (a record)
    descriptor     \* the result of the last getModel() call

vars == <<variant, options, saneDefaults, args, pc, request, timeoutMs, timer,
          apiState, apiResponse, apiError, winner, consumed, cur, emitted, error,
          pulls, chatCalls, swallowed, current, other, descriptor>>

configVars == <<variant, options, saneDefaults>>
callVars == <<args, pc, request, timeoutMs, timer, apiState, apiResponse, apiError,
              winner, consumed, cur, emitted, error, pulls, chatCalls, swallowed>>
retryVars == <<chatCalls, swallowed>>
peerVars == <<current, other>>

\* The state of the call the call variables describe, as a record.
CallRecord ==
    [args |-> args, pc |-> pc, request |-> request, timeoutMs |-> timeoutMs,
     timer |-> timer, apiState |-> apiState, apiResponse |-> apiResponse,
     apiError |-> apiError, winner |-> winner, consumed |-> consumed, cur |-> cur,
     emitted |-> emitted, error |-> error, pulls |-> pulls, chatCalls |-> chatCalls,
     swallowed |-> swallowed]

\* A call not yet made.
IdleCall ==
    [args |-> None, pc |-> "idle", request |-> None, timeoutMs |-> None,
     timer |-> "none", apiState |-> "none", apiResponse |-> None,
     apiError |-> None, winner |-> "none", consumed |-> <<>>, cur |-> None,
     emitted |-> <<>>, error |-> None, pulls |-> 0, chatCalls |-> 0,
     swallowed |-> 0]

Options(modelId, baseUrl, requestTimeoutMs, useStreaming, ctxNum) ==
    [ollamaModelId |-> modelId, ollamaBaseUrl |-> baseUrl,
     requestTimeoutMs |-> requestTimeoutMs, ollamaUseStreaming |-> useStreaming,
     ollamaApiOptionsCtxNum |-> ctxNum]


(***************************************************************************)
(* JavaScript truthiness of the optional values the code tests.            *)
(***************************************************************************)
TruthyString(x) == IsDefined(x) /\ x[1] # ""
TruthyText(x) == IsDefined(x) /\ Len(x[1]) > 0
TruthyNumber(x) == IsDefined(x) /\ x[1] # 0

\* message.includes(text), on tokenised messages.
Includes(message, text) == \E i \in 1..Len(message) : message[i] = text

(***************************************************************************)
(* getModel(), both variants.                                              *)
(***************************************************************************)
ModelInfo(opts, defaults) ==
    IF TruthyText(opts.ollamaApiOptionsCtxNum)
    THEN [defaults EXCEPT !.contextWindow = NumberOr(opts.ollamaApiOptionsCtxNum[1], FallbackCtxNum)]
    ELSE defaults

getModel(v, opts, defaults) ==
    [id   |-> IF v = 1 THEN opts.ollamaModelId
              ELSE IF TruthyString(opts.ollamaModelId) THEN opts.ollamaModelId ELSE Some(""),
     info |-> ModelInfo(opts, defaults)]

(***************************************************************************)
(* createMessage: the pure parts.                                          *)
(***************************************************************************)
\* Mutant: the model id check left out.
ModelIdMissing_NoCheck(v, opts) == FALSE

\* if (!modelId) throw ...   (variant 1 only)
ModelIdMissing(v, opts) == v = 1 /\ ~TruthyString(opts.ollamaModelId)

\* The converter is imported; it maps each conversation message to a
\* transport message, keeping the order.
convertToOllamaMessages(messages) ==
    [i \in 1..Len(messages) |-> [role |-> messages[i].role, content |-> messages[i].content]]

OllamaMessages(systemPrompt, messages) ==
    <<[role |-> "system", content |-> systemPrompt]>> \o convertToOllamaMessages(messages)

\* requestTimeoutMs ?? 30_000 (variant 1), requestTimeoutMs || 60000 (variant 2)
TimeoutMs(v, opts) ==
    IF v = 1
    THEN IF IsDefined(opts.requestTimeoutMs) THEN opts.requestTimeoutMs[1] ELSE DefaultTimeoutMsV1
    ELSE IF TruthyNumber(opts.requestTimeoutMs) THEN opts.requestTimeoutMs[1] ELSE DefaultTimeoutMsV2

\* `Ollama request timed out after ${timeoutMs / 1000} seconds`; the budgets
\* of the model are multiples of 1000, on which \div is the division.
TimeoutMessage(ms) ==
    <<"Ollama request ", "timed out", " after ", ToString(ms \div 1000), " seconds">>

\* ollamaUseStreaming ?? true (variant 2); variant 1 always streams.
UseStreaming(v, opts) ==
    IF v = 1 THEN TRUE
    ELSE IF IsDefined(opts.ollamaUseStreaming) THEN opts.ollamaUseStreaming[1] ELSE TRUE

\* The argument of this.client.chat().
ChatRequest(v, opts, defaults, systemPrompt, messages) ==
    [model    |-> IF v = 1 THEN opts.ollamaModelId ELSE getModel(v, opts, defaults).id,
     messages |-> OllamaMessages(systemPrompt, messages),
     stream   |-> UseStreaming(v, opts),
     num_ctx  |-> IF v = 1 THEN None
                  ELSE IF IsDefined(opts.ollamaApiOptionsCtxNum)
                       THEN Some(NumberOr(opts.ollamaApiOptionsCtxNum[1], FallbackCtxNum))
                       ELSE Some(FallbackCtxNum)]

\* Mutant: a request that has settled by the time the body resumes is taken,
\* whichever promise settled first.
PromiseRace_RequestPreferred(w, api) ==
    IF api \in {"resolved", "rejected"} THEN api ELSE "timeout"

\* What `await Promise.race([apiPromise, timeoutPromise])` delivers: the
\* settlement of the promise that settled first.
PromiseRace(w, api) == IF w = "timer" THEN "timeout" ELSE api

BaseUrl(opts) == IF IsDefined(opts.ollamaBaseUrl) THEN opts.ollamaBaseUrl[1] ELSE DefaultBaseUrl

\* err?.status ?? err?.statusCode ?? "unknown", interpolated
StatusText(err) ==
    IF IsDefined(err.status) THEN ToString(err.status[1])
    ELSE IF IsDefined(err.statusCode) THEN ToString(err.statusCode[1])
    ELSE "unknown"

\* The catch around the race of variant 1.  The dash of the source's message
\* is written " -- " here.
CatchRaceV1(err, opts) ==
    LET cause == IF IsDefined(err.cause) THEN err.cause[1] ELSE Cause(err.code, err.message)
    IN  IF TruthyString(cause.code)
        THEN NewError(<<"Could not reach Ollama at ", BaseUrl(opts), " -- ", cause.code[1], ": ">>
                      \o cause.message)
        ELSE NewError(<<"Ollama API error (", StatusText(err), "): ">> \o err.message)

\* The inner catch of variant 2, around the stream loop.
StreamCatchV2(streamError) ==
    NewError(<<"Ollama stream processing error: ">>
             \o (IF Len(streamError.message) > 0 THEN streamError.message
                 ELSE <<"Unknown error">>))

\* The outer catch of variant 2.
OuterCatchV2(err, opts) ==
    IF Len(err.message) > 0 /\ Includes(err.message, "timed out")
    THEN NewError(TimeoutMessage(IF TruthyNumber(opts.requestTimeoutMs)
                                 THEN opts.requestTimeoutMs[1] ELSE CatchTimeoutMsV2))
    ELSE err

\* The error the caller gets when the awaited race rejects with err.
RaceFailure(v, err, opts) == IF v = 1 THEN CatchRaceV1(err, opts) ELSE OuterCatchV2(err, opts)

\* The error the caller gets when the stream iterator throws err.
StreamFailure(v, err, opts) == IF v = 1 THEN err ELSE OuterCatchV2(StreamCatchV2(err), opts)

\* typeof chunk.message.content === "string"
HasContent(chunk) == IsDefined(chunk.content)

TextChunk(chunk) == [type |-> "text", text |-> chunk.content[1]]

\* Mutant: a usage chunk only when both counters are reported.
ReportsUsage_BothCounters(chunk) ==
    IsDefined(chunk.eval_count) /\ IsDefined(chunk.prompt_eval_count)

\* chunk.eval_count !== undefined || chunk.prompt_eval_count !== undefined
ReportsUsage(chunk) == IsDefined(chunk.eval_count) \/ IsDefined(chunk.prompt_eval_count)

\* counter ?? 0 (variant 1), counter || 0 (variant 2)
CounterOrZero(v, counter) ==
    IF v = 1 THEN (IF IsDefined(counter) THEN counter[1] ELSE 0)
    ELSE (IF TruthyNumber(counter) THEN counter[1] ELSE 0)

\* Mutant: the two counters exchanged.
UsageChunk_Swapped(v, chunk) ==
    [type |-> "usage",
     inputTokens  |-> CounterOrZero(v, chunk.eval_count),
     outputTokens |-> CounterOrZero(v, chunk.prompt_eval_count)]

UsageChunk(v, chunk) ==
    [type |-> "usage",
     inputTokens  |-> CounterOrZero(v, chunk.prompt_eval_count),
     outputTokens |-> CounterOrZero(v, chunk.eval_count)]


(***************************************************************************)
(* Initial states: a constructed adapter, createMessage not yet invoked.   *)
(***************************************************************************)
NoCall ==
    /\ args = None
    /\ pc = "idle"
    /\ request = None
    /\ timeoutMs = None
    /\ timer = "none"
    /\ apiState = "none"
    /\ apiResponse = None
    /\ apiError = None
    /\ winner = "none"
    /\ consumed = <<>>
    /\ cur = None
    /\ emitted = <<>>
    /\ error = None
    /\ pulls = 0
    /\ chatCalls = 0
    /\ swallowed = 0
    /\ current = 1
    /\ other = IdleCall

\* The context-size settings used where createMessage is exercised.
CallCtxNumSettings == {None}

Init ==
    /\ variant \in Variants
    /\ \E m \in ModelIds, u \in BaseUrls, t \in TimeoutSettings,
          st \in StreamingSettings, c \in CallCtxNumSettings :
            options = Options(m, u, t, st, c)
    /\ saneDefaults = [contextWindow |-> 128000]
    /\ descriptor = None
    /\ NoCall

(***************************************************************************)
(* createMessage: the generator body, one action per run between two       *)
(* suspension points.                                                      *)
(***************************************************************************)
\* createMessage(systemPrompt, messages) is called: an async generator is
\* made and none of its body runs.
Invoke(systemPrompt, messages) ==
    /\ pc = "idle"
    /\ args' = Some([systemPrompt |-> systemPrompt, messages |-> messages])
    /\ pc' = "created"
    /\ UNCHANGED <<configVars, peerVars, request, timeoutMs, timer, apiState, apiResponse, apiError,
                   winner, consumed, cur, emitted, error, pulls, retryVars, descriptor>>

\* Lines 43-44, on the caller's first request for a chunk: the model id check
\* of variant 1 throws.
ThrowModelIdRequired ==
    /\ pc = "created"
    /\ ModelIdMissing(variant, options)
    /\ pulls' = pulls + 1
    /\ error' = Some(NewError(<<"Ollama model id is required">>))
    /\ pc' = "failed"
    /\ UNCHANGED <<configVars, peerVars, args, request, timeoutMs, timer, apiState, apiResponse,
                   apiError, winner, consumed, cur, emitted, retryVars, descriptor>>

\* Lines 46-63 and 129-153 / 180-190: the body from its start to the await of
\* the race: arm the timer, issue the request.
StartBody ==
    /\ timeoutMs' = Some(TimeoutMs(variant, options))
    /\ timer' = "armed"
    /\ request' = Some(ChatRequest(variant, options, saneDefaults,
                                   args[1].systemPrompt, args[1].messages))
    /\ chatCalls' = chatCalls + 1
    /\ apiState' = "pending"
    /\ apiResponse' = None
    /\ apiError' = None
    /\ winner' = "none"
    /\ cur' = None
    /\ pc' = "race"

\* The caller's first request for a chunk starts the body.
IssueRequest ==
    /\ pc = "created"
    /\ ~ModelIdMissing(variant, options)
    /\ pulls' = pulls + 1
    /\ StartBody
    /\ UNCHANGED <<configVars, peerVars, args, consumed, emitted, error, swallowed, descriptor>>

\* A timeoutPromise kept in one place for the whole adapter: every timer
\* rejects the promise the first call races against.
TimeoutPromiseOf_Shared(call) == 1

\* Lines 50-52, 134-136: the call whose timeoutPromise the timer of a call
\* rejects.  The promise, its reject and the timer are locals of the
\* invocation: the timer of a call rejects the promise of that call.
TimeoutPromiseOf(call) == call

\* The race of a call is settled by a rejection of its timeoutPromise.
RejectedByTimer(c) == IF c.winner = "none" /\ c.pc = "race" THEN [c EXCEPT !.winner = "timer"] ELSE c

\* A timer that bounds the whole call: its expiry fails a call that is
\* consuming its stream.
TimerFires_AbortsStream ==
    /\ timer = "armed"
    /\ timer' = "fired"
    /\ winner' = IF winner = "none" THEN "timer" ELSE winner
    /\ IF winner = "request" /\ pc \in {"forAwait", "yieldText", "yieldUsage"}
       THEN /\ pc' = "failed"
            /\ error' = Some(NewError(TimeoutMessage(timeoutMs[1])))
       ELSE UNCHANGED <<pc, error>>
    /\ UNCHANGED <<configVars, peerVars, args, request, timeoutMs, apiState, apiResponse,
                   apiError, consumed, cur, emitted, pulls, retryVars, descriptor>>

\* setTimeout's callback rejects timeoutPromise.  The timer is never cleared.
TimerFires ==
    /\ timer = "armed"
    /\ timer' = "fired"
    /\ winner' = IF TimeoutPromiseOf(current) = current /\ winner = "none"
                 THEN "timer" ELSE winner
    /\ other' = IF TimeoutPromiseOf(current) = current THEN other ELSE RejectedByTimer(other)
    /\ UNCHANGED <<configVars, current, args, pc, request, timeoutMs, apiState, apiResponse,
                   apiError, consumed, cur, emitted, error, pulls, retryVars, descriptor>>

\* The transport resolves apiPromise with a stream (stream: true).
ChatResolvesWithStream ==
    /\ apiState = "pending"
    /\ request[1].stream
    /\ apiState' = "resolved"
    /\ winner' = IF winner = "none" THEN "request" ELSE winner
    /\ UNCHANGED <<configVars, peerVars, args, pc, request, timeoutMs, timer, apiResponse,
                   apiError, consumed, cur, emitted, error, pulls, retryVars, descriptor>>

\* The transport resolves apiPromise with a single response (stream: false).
ChatResolvesWithResponse(response) ==
    /\ apiState = "pending"
    /\ ~request[1].stream
    /\ apiState' = "resolved"
    /\ apiResponse' = Some(response)
    /\ winner' = IF winner = "none" THEN "request" ELSE winner
    /\ UNCHANGED <<configVars, peerVars, args, pc, request, timeoutMs, timer,
                   apiError, consumed, cur, emitted, error, pulls, retryVars, descriptor>>

\* The transport rejects apiPromise.
ChatRejects(err) ==
    /\ apiState = "pending"
    /\ apiState' = "rejected"
    /\ apiError' = Some(err)
    /\ winner' = IF winner = "none" THEN "request" ELSE winner
    /\ UNCHANGED <<configVars, peerVars, args, pc, request, timeoutMs, timer, apiResponse,
                   consumed, cur, emitted, error, pulls, retryVars, descriptor>>

\* Where the body goes once a chunk (or the single response) is dealt with.
AfterChunk == IF request[1].stream THEN "forAwait" ELSE "done"

\* Lines 85-92, 166-172, 202-208: the usage part of a chunk.
UsagePart(chunk) ==
    IF ReportsUsage(chunk)
    THEN /\ emitted' = Append(emitted, UsageChunk(variant, chunk))
         /\ pc' = "yieldUsage"
    ELSE /\ emitted' = emitted
         /\ pc' = AfterChunk

\* A body that collects the chunks of a transport chunk and goes on reading
\* instead of suspending at each yield.
ProcessChunk_ReadAhead(chunk) ==
    /\ cur' = Some(chunk)
    /\ emitted' = emitted \o (IF HasContent(chunk) THEN <<TextChunk(chunk)>> ELSE <<>>)
                           \o (IF ReportsUsage(chunk) THEN <<UsageChunk(variant, chunk)>> ELSE <<>>)
    /\ pc' = AfterChunk

\* Lines 81-83, 158-163, 194-199: the text part of a chunk, up to the next yield.
ProcessChunk(chunk) ==
    /\ cur' = Some(chunk)
    /\ IF HasContent(chunk)
       THEN /\ emitted' = Append(emitted, TextChunk(chunk))
            /\ pc' = "yieldText"
       ELSE UsagePart(chunk)

\* The awaited race rejects: by the timer, or by the request.
RaceRejects ==
    /\ pc = "race"
    /\ winner # "none"
    /\ PromiseRace(winner, apiState) \in {"timeout", "rejected"}
    /\ LET err == IF PromiseRace(winner, apiState) = "timeout"
                  THEN NewError(TimeoutMessage(timeoutMs[1]))
                  ELSE apiError[1]
       IN  error' = Some(RaceFailure(variant, err, options))
    /\ pc' = "failed"
    /\ UNCHANGED <<configVars, peerVars, args, request, timeoutMs, timer, apiState, apiResponse,
                   apiError, winner, consumed, cur, emitted, pulls, retryVars, descriptor>>

\* The awaited race fulfils with the stream: enter the for-await loop.
RaceYieldsStream ==
    /\ pc = "race"
    /\ winner # "none"
    /\ PromiseRace(winner, apiState) = "resolved"
    /\ request[1].stream
    /\ pc' = "forAwait"
    /\ UNCHANGED <<configVars, peerVars, args, request, timeoutMs, timer, apiState, apiResponse,
                   apiError, winner, consumed, cur, emitted, error, pulls, retryVars, descriptor>>

\* The awaited race fulfils with the single response (variant 2, lines 190-199).
RaceYieldsResponse ==
    /\ pc = "race"
    /\ winner # "none"
    /\ PromiseRace(winner, apiState) = "resolved"
    /\ ~request[1].stream
    /\ ProcessChunk(apiResponse[1])
    /\ UNCHANGED <<configVars, peerVars, args, request, timeoutMs, timer, apiState, apiResponse,
                   apiError, winner, consumed, error, pulls, retryVars, descriptor>>

\* The stream delivers its next chunk.
StreamDelivers(chunk) ==
    /\ pc = "forAwait"
    /\ Len(consumed) < MaxChunks
    /\ consumed' = Append(consumed, chunk)
    /\ ProcessChunk(chunk)
    /\ UNCHANGED <<configVars, peerVars, args, request, timeoutMs, timer, apiState, apiResponse,
                   apiError, winner, error, pulls, retryVars, descriptor>>

\* The caller asks for the next chunk after a text chunk.
ResumeAfterText ==
    /\ pc = "yieldText"
    /\ pulls' = pulls + 1
    /\ UsagePart(cur[1])
    /\ UNCHANGED <<configVars, peerVars, args, request, timeoutMs, timer, apiState, apiResponse,
                   apiError, winner, consumed, cur, error, retryVars, descriptor>>

\* The caller asks for the next chunk after a usage chunk.
ResumeAfterUsage ==
    /\ pc = "yieldUsage"
    /\ pulls' = pulls + 1
    /\ pc' = AfterChunk
    /\ UNCHANGED <<configVars, peerVars, args, request, timeoutMs, timer, apiState, apiResponse,
                   apiError, winner, consumed, cur, emitted, error, retryVars, descriptor>>

\* The stream ends: the loop and the generator complete.
StreamEnds ==
    /\ pc = "forAwait"
    /\ pc' = "done"
    /\ UNCHANGED <<configVars, peerVars, args, request, timeoutMs, timer, apiState, apiResponse,
                   apiError, winner, consumed, cur, emitted, error, pulls, retryVars, descriptor>>

\* The stream iterator throws while the loop awaits the next chunk.
StreamThrows(err) ==
    /\ pc = "forAwait"
    /\ error' = Some(StreamFailure(variant, err, options))
    /\ pc' = "failed"
    /\ UNCHANGED <<configVars, peerVars, args, request, timeoutMs, timer, apiState, apiResponse,
                   apiError, winner, consumed, cur, emitted, pulls, retryVars, descriptor>>

Next ==
    \/ \E sp \in SystemPrompts, ms \in MessageLists : Invoke(sp, ms)
    \/ ThrowModelIdRequired
    \/ IssueRequest
    \/ TimerFires
    \/ ChatResolvesWithStream
    \/ \E r \in TransportChunks : ChatResolvesWithResponse(r)
    \/ \E e \in TransportErrors : ChatRejects(e)
    \/ RaceRejects
    \/ RaceYieldsStream
    \/ RaceYieldsResponse
    \/ \E c \in TransportChunks : StreamDelivers(c)
    \/ ResumeAfterText
    \/ ResumeAfterUsage
    \/ StreamEnds
    \/ \E e \in StreamErrors : StreamThrows(e)

Spec == Init /\ [][Next]_vars

(***************************************************************************)
(* The decorated method.  Variant 2 declares createMessage with            *)
(* @withRetry({ retryAllErrors: true }) (line 127); the decorator is       *)
(* imported from ../retry.  It wraps the whole call from outside: when     *)
(* the body throws, the wrapper catches the error and runs the body again  *)
(* with the same arguments, handing the chunks of the new run to the same  *)
(* caller; the error of the last run allowed is thrown to the caller.      *)
(* The timer and the request of the run given up are left as they are      *)
(* and can no longer act on the call.  In this specification `consumed`    *)
(* is the log of the transport chunks of all the runs.                     *)
(***************************************************************************)
\* Line 127: only variant 2 is decorated.
Decorated(v) == v = 2

withRetry ==
    /\ pc = "failed"
    /\ Decorated(variant)
    /\ chatCalls < MaxAttempts
    /\ swallowed' = swallowed + 1
    /\ error' = None
    /\ StartBody
    /\ UNCHANGED <<configVars, peerVars, args, consumed, emitted, pulls, descriptor>>

InitRetry ==
    /\ variant \in Variants
    /\ \E m \in {None, Some("llama3")}, st \in StreamingSettings :
            options = Options(m, None, None, st, None)
    /\ saneDefaults = [contextWindow |-> 128000]
    /\ descriptor = None
    /\ NoCall

NextRetry ==
    \/ Next
    \/ withRetry

SpecRetry == InitRetry /\ [][NextRetry]_vars

(***************************************************************************)
(* getModel() on its own: every configuration, one call.                   *)
(***************************************************************************)
InitModel ==
    /\ variant \in Variants
    /\ \E m \in ModelIds, c \in CtxNumSettings :
            options = Options(m, None, None, None, c)
    /\ saneDefaults \in SaneDefaultsChoices
    /\ descriptor = None
    /\ NoCall

\* A getModel() that stores the id it resolved back into this.options
\* (`||=` in place of `||` at line 229).
GetModel_WritesBack ==
    /\ descriptor' = Some(getModel(variant, options, saneDefaults))
    /\ options' = [options EXCEPT !.ollamaModelId = getModel(variant, options, saneDefaults).id]
    /\ UNCHANGED <<variant, saneDefaults, peerVars, callVars>>

GetModel ==
    /\ descriptor' = Some(getModel(variant, options, saneDefaults))
    /\ UNCHANGED <<configVars, peerVars, callVars>>

NextModel == GetModel

SpecModel == InitModel /\ [][NextModel]_vars

(***************************************************************************)
(* getModel() called any number of times before, during and after a        *)
(* createMessage call on the same adapter.                                 *)
(***************************************************************************)
InitModelInFlight ==
    /\ variant \in Variants
    /\ \E m \in {None, Some("llama3")}, c \in {None, Some(<<"7">>)} :
            options = Options(m, None, None, None, c)
    /\ saneDefaults = [contextWindow |-> 128000]
    /\ descriptor = None
    /\ NoCall

NextModelInFlight ==
    \/ GetModel
    \/ \E sp \in SystemPrompts : Invoke(sp, <<>>)
    \/ ThrowModelIdRequired
    \/ IssueRequest
    \/ TimerFires
    \/ ChatResolvesWithStream
    \/ ChatRejects(ConcurrentError)
    \/ RaceRejects
    \/ RaceYieldsStream
    \/ \E c \in ConcurrentChunks : StreamDelivers(c)
    \/ ResumeAfterText
    \/ ResumeAfterUsage
    \/ StreamEnds
    \/ StreamThrows(ConcurrentError)

SpecModelInFlight == InitModelInFlight /\ [][NextModelInFlight]_vars

(***************************************************************************)
(* Two calls of createMessage in flight on the same adapter.  Everything   *)
(* a call works with is a local of its invocation (ollamaMessages,         *)
(* timeoutPromise, the timer, the stream); the calls share this.options    *)
(* and this.client, which createMessage only reads.  The call variables    *)
(* describe the call that runs; `other` holds the call that waits, and     *)
(* Switch is the event loop passing from one to the other, which it can    *)
(* do wherever a call is suspended, and every action above runs from one   *)
(* suspension point to the next.                                           *)
(***************************************************************************)
Switch ==
    /\ current' = 3 - current
    /\ other' = CallRecord
    /\ args' = other.args
    /\ pc' = other.pc
    /\ request' = other.request
    /\ timeoutMs' = other.timeoutMs
    /\ timer' = other.timer
    /\ apiState' = other.apiState
    /\ apiResponse' = other.apiResponse
    /\ apiError' = other.apiError
    /\ winner' = other.winner
    /\ consumed' = other.consumed
    /\ cur' = other.cur
    /\ emitted' = other.emitted
    /\ error' = other.error
    /\ pulls' = other.pulls
    /\ chatCalls' = other.chatCalls
    /\ swallowed' = other.swallowed
    /\ UNCHANGED <<configVars, descriptor>>

InitConcurrent ==
    /\ variant \in Variants
    /\ \E st \in StreamingSettings : options = Options(Some("llama3"), None, None, st, None)
    /\ saneDefaults = [contextWindow |-> 128000]
    /\ descriptor = None
    /\ NoCall

NextConcurrent ==
    \/ Switch
    \/ \E sp \in SystemPrompts : Invoke(sp, <<>>)
    \/ IssueRequest
    \/ TimerFires
    \/ ChatResolvesWithStream
    \/ \E r \in ConcurrentChunks : ChatResolvesWithResponse(r)
    \/ ChatRejects(ConcurrentError)
    \/ RaceRejects
    \/ RaceYieldsStream
    \/ RaceYieldsResponse
    \/ \E c \in ConcurrentChunks : StreamDelivers(c)
    \/ ResumeAfterText
    \/ ResumeAfterUsage
    \/ StreamEnds
    \/ StreamThrows(ConcurrentError)

SpecConcurrent == InitConcurrent /\ [][NextConcurrent]_vars


(***************************************************************************)
(* Vocabulary of the properties: the error taxonomy, read off the message  *)
(* of the error the caller gets, and the chunks a transport chunk stands   *)
(* for.                                                                    *)
(***************************************************************************)
IsConfigurationError(e) == e.message = <<"Ollama model id is required">>

IsTimeoutError(e) ==
    /\ Len(e.message) = 5
    /\ e.message[1] = "Ollama request "
    /\ e.message[2] = "timed out"

IsApiError(e) ==
    /\ Len(e.message) >= 3
    /\ e.message[1] = "Ollama API error ("
    /\ e.message[3] = "): "

IsConnectivityError(e) ==
    /\ Len(e.message) >= 1
    /\ e.message[1] = "Could not reach Ollama at "

IsStreamProcessingError(e) ==
    /\ Len(e.message) >= 1
    /\ e.message[1] = "Ollama stream processing error: "

\* The number of seconds an error message states: the token after " after ".
StatedSeconds(message) ==
    LET i == CHOOSE k \in 1..Len(message) : message[k] = " after "
    IN  message[i + 1]

Text(content) == [type |-> "text", text |-> content]
Usage(input, output) == [type |-> "usage", inputTokens |-> input, outputTokens |-> output]
Counter(x) == IF x = None THEN 0 ELSE x[1]

ExpectedText(c) == IF c.content = None THEN <<>> ELSE <<Text(c.content[1])>>

ExpectedUsage(c) ==
    IF c.prompt_eval_count = None /\ c.eval_count = None THEN <<>>
    ELSE <<Usage(Counter(c.prompt_eval_count), Counter(c.eval_count))>>

RECURSIVE ExpectedOutput(_)
ExpectedOutput(chunks) ==
    IF chunks = <<>> THEN <<>>
    ELSE ExpectedText(Head(chunks)) \o ExpectedUsage(Head(chunks)) \o ExpectedOutput(Tail(chunks))

Front(seq) == SubSeq(seq, 1, Len(seq) - 1)

Streaming == request # None /\ request[1].stream
NonStreaming == request # None /\ ~request[1].stream

\* The failures of a call, told apart by what preceded them.
FailedByTimer == pc = "failed" /\ winner = "timer"
FailedByRequest == pc = "failed" /\ winner = "request" /\ apiState = "rejected"
FailedInStream == pc = "failed" /\ winner = "request" /\ apiState = "resolved"

(***************************************************************************)
(* C1.  For a streamed response the emitted chunks are, in transport       *)
(* order, the chunks of the transport chunks consumed and nothing else:    *)
(* per transport chunk one Text chunk if it has content, then one Usage    *)
(* chunk iff it reports a counter, a missing counter counted as 0.  The    *)
(* stream "a", "b", {prompt_eval_count: 5, eval_count: 3} gives            *)
(* Text("a"), Text("b"), Usage(5, 3).                                      *)
(***************************************************************************)
ExampleStream ==
    <<Chunk(Some("a"), None, None), Chunk(Some("b"), None, None), Chunk(None, Some(5), Some(3))>>

C1_StreamedChunksInOrder ==
    Streaming =>
        /\ pc \in {"race"} => emitted = <<>>
        /\ pc \in {"forAwait", "yieldUsage", "done", "failed"} => emitted = ExpectedOutput(consumed)
        /\ pc = "yieldText" =>
                emitted = ExpectedOutput(Front(consumed)) \o ExpectedText(consumed[Len(consumed)])
        /\ (pc = "done" /\ consumed = ExampleStream) =>
                emitted = <<Text("a"), Text("b"), Usage(5, 3)>>

C1_Witness ==
    /\ Streaming
    /\ pc = "done"
    /\ consumed = ExampleStream
    /\ emitted = <<Text("a"), Text("b"), Usage(5, 3)>>

(***************************************************************************)
(* C2.  When the timer expires before the request settles, the call fails  *)
(* with a TimeoutError, which is no ApiError, no ConnectivityError and no  *)
(* raw transport error, and the caller has got and gets no chunk.          *)
(***************************************************************************)
C2_TimeoutIsTimeoutError ==
    FailedByTimer =>
        /\ IsTimeoutError(error[1])
        /\ ~IsApiError(error[1])
        /\ ~IsConnectivityError(error[1])
        /\ error[1] \notin TransportErrors
        /\ emitted = <<>>

(***************************************************************************)
(* C3.  The seconds stated in the timeout error are the budget the timer   *)
(* was armed with, timeoutMs / 1000, in every configuration.               *)
(***************************************************************************)
C3_StatedSecondsAreArmedBudget ==
    (FailedByTimer /\ Includes(error[1].message, " after ")) =>
        StatedSeconds(error[1].message) = ToString(timeoutMs[1] \div 1000)

(***************************************************************************)
(* C4.  Variant 1: with no model id configured, createMessage fails with   *)
(* a ConfigurationError, and no chat call is issued, no timer started and  *)
(* no chunk emitted, whatever systemPrompt and messages are.               *)
(***************************************************************************)
ModelIdUnset == options.ollamaModelId = None \/ options.ollamaModelId = Some("")

C4_ModelIdRequiredFirst ==
    (variant = 1 /\ ModelIdUnset) =>
        /\ request = None
        /\ apiState = "none"
        /\ timer = "none"
        /\ emitted = <<>>
        /\ pc \in {"idle", "created", "failed"}
        /\ pc = "failed" => IsConfigurationError(error[1])

C4_Witness ==
    /\ variant = 1
    /\ options.ollamaModelId = None
    /\ pc = "failed"
    /\ args[1].systemPrompt # ""
    /\ args[1].messages # <<>>
    /\ IsConfigurationError(error[1])

(***************************************************************************)
(* C5.  When the request fails with a network-level error (the error or    *)
(* its cause carries a code), the call fails with a ConnectivityError      *)
(* whose message holds the base URL and the code; the underlying error is  *)
(* not passed on as it is.                                                 *)
(***************************************************************************)
NetworkCode(e) ==
    IF e.cause # None /\ e.cause[1].code # None THEN e.cause[1].code ELSE e.code

C5_NetworkFailureIsConnectivityError ==
    (FailedByRequest /\ NetworkCode(apiError[1]) # None) =>
        /\ IsConnectivityError(error[1])
        /\ Includes(error[1].message, BaseUrl(options))
        /\ Includes(error[1].message, NetworkCode(apiError[1])[1])
        /\ error[1] # apiError[1]

(***************************************************************************)
(* C6.  When the request fails with an HTTP-status error, the call fails   *)
(* with an ApiError whose message carries the status (or "unknown" when    *)
(* there is none); an error that carries a status is never turned into a   *)
(* ConnectivityError.                                                      *)
(***************************************************************************)
CarriesStatus(e) == e.status # None \/ e.statusCode # None

StatusOf(e) ==
    IF e.status # None THEN ToString(e.status[1])
    ELSE IF e.statusCode # None THEN ToString(e.statusCode[1])
    ELSE "unknown"

C6_StatusFailureIsApiError ==
    /\ (FailedByRequest /\ CarriesStatus(apiError[1])) =>
            /\ IsApiError(error[1])
            /\ error[1].message[2] = StatusOf(apiError[1])
            /\ ~IsConnectivityError(error[1])
    /\ (FailedByRequest /\ ~CarriesStatus(apiError[1]) /\ NetworkCode(apiError[1]) = None) =>
            /\ IsApiError(error[1])
            /\ error[1].message[2] = "unknown"

(***************************************************************************)
(* C7.  Variant 2: when the stream fails while it is consumed, the caller  *)
(* gets a StreamProcessingError, and the chunks emitted before it are      *)
(* exactly those of the transport chunks consumed so far.                  *)
(***************************************************************************)
C7_StreamFailureIsStreamProcessingError ==
    (variant = 2 /\ FailedInStream) =>
        /\ IsStreamProcessingError(error[1])
        /\ emitted = ExpectedOutput(consumed)

(***************************************************************************)
(* C8.  The first of the request and the timer to settle decides the       *)
(* race, once and for all.  When the request settles first the call goes   *)
(* on with its result or fails with its error.  When the timer settles     *)
(* first the call fails; the request is not cancelled by the timer, and    *)
(* nothing it later produces reaches the caller, as a chunk or as a        *)
(* second error.                                                           *)
(***************************************************************************)
C8_FirstSettleDecides ==
    [][ /\ winner # "none" => winner' = winner
        /\ (winner = "none" /\ winner' = "timer") => apiState = "pending"
        /\ (winner = "none" /\ winner' = "request") => timer = "armed"
        /\ (timer = "armed" /\ timer' = "fired") => apiState' = apiState
        /\ (pc = "race" /\ pc' # "race" /\ winner = "timer") =>
                (pc' = "failed" /\ emitted' = <<>>)
        /\ (pc = "race" /\ pc' # "race" /\ winner = "request") =>
                (pc' = "failed") = (apiState = "rejected")
        /\ winner = "timer" => emitted' = emitted
        /\ error # None => (error' = error /\ pc' = pc)
      ]_vars

C8_Witness ==
    /\ FailedByTimer
    /\ apiState = "resolved"
    /\ emitted = <<>>
    /\ consumed = <<>>

(***************************************************************************)
(* C9.  In non-streaming mode a successful call emits at most two chunks:  *)
(* one Text chunk when the response has content, then at most one Usage    *)
(* chunk (only when the response reports a counter, a missing counter      *)
(* counted as 0), never a Usage chunk before the Text chunk.               *)
(***************************************************************************)
C9_SingleResponseChunks ==
    NonStreaming =>
        /\ Len(emitted) <= 2
        /\ pc = "race" => emitted = <<>>
        /\ pc = "yieldText" => emitted = ExpectedText(apiResponse[1])
        /\ pc \in {"yieldUsage", "done"} =>
                emitted = ExpectedText(apiResponse[1]) \o ExpectedUsage(apiResponse[1])
        /\ pc # "forAwait"

C9_Witness ==
    /\ NonStreaming
    /\ pc = "done"
    /\ emitted = <<Text(""), Usage(0, 3)>>

(***************************************************************************)
(* C10.  getModel() returns the configured override as contextWindow when  *)
(* it parses to a positive number, and in every other case (no override,   *)
(* unparsable, zero, negative) a fixed default window size.                *)
(***************************************************************************)
OverrideIsPositive ==
    /\ options.ollamaApiOptionsCtxNum # None
    /\ Number(options.ollamaApiOptionsCtxNum[1]) # None
    /\ Number(options.ollamaApiOptionsCtxNum[1])[1] > 0

C10_ContextWindowPolicy ==
    descriptor # None =>
        IF OverrideIsPositive
        THEN descriptor[1].info.contextWindow = Number(options.ollamaApiOptionsCtxNum[1])[1]
        ELSE descriptor[1].info.contextWindow \in {FallbackCtxNum, saneDefaults.contextWindow}


(***************************************************************************)
(* C11.  Every failure surfaces: once the request has rejected, the timer  *)
(* has won the race or the stream has failed, the call ends with that      *)
(* error; it never goes on to complete normally.                           *)
(***************************************************************************)
\* `swallowed` counts the failures of the body that did not end the call.
C11_EveryFailureSurfaces ==
    /\ pc = "failed" => error # None
    /\ pc = "done" => (swallowed = 0 /\ error = None)


(***************************************************************************)
(* C12.  Two createMessage calls in flight on the same adapter are         *)
(* independent under every interleaving: a step of one call leaves the     *)
(* state of the other call as it was, each call emits the chunks of the    *)
(* transport chunks it consumed itself, and a call whose race the timer    *)
(* won, or that failed with a timeout message, is a call whose own timer   *)
(* expired.                                                                *)
(***************************************************************************)
RunsAsAlone(c) ==
    /\ c.winner = "timer" => c.timer = "fired"
    /\ (c.pc = "failed" /\ Includes(c.error[1].message, "timed out")) =>
            (c.timer = "fired" /\ c.winner = "timer")
    /\ (c.request # None /\ c.request[1].stream
            /\ c.pc \in {"forAwait", "yieldUsage", "done", "failed"}) =>
            c.emitted = ExpectedOutput(c.consumed)
    /\ c.pc = "race" => (c.emitted = <<>> /\ c.error = None)

C12_ConcurrentCallsIndependent ==
    /\ [](RunsAsAlone(CallRecord) /\ RunsAsAlone(other))
    /\ [][current' = current => other' = other]_vars

\* One call has timed out while the other, issued before that expiry, went
\* on to stream its chunks to the end with its own timer still armed.
C12_Witness ==
    /\ FailedByTimer
    /\ other.pc = "done"
    /\ other.timer = "armed"
    /\ other.emitted = <<Text("a"), Usage(5, 3)>>


(***************************************************************************)
(* C13.  getModel() is idempotent and pure: with the configuration         *)
(* unchanged, a call made after another returns an equal descriptor (same  *)
(* id, same info), and a call changes neither the configuration of the     *)
(* adapter nor the state of a createMessage call in flight.                *)
(***************************************************************************)
C13_GetModelIdempotentAndPure ==
    [][ /\ (descriptor # None /\ descriptor' # None /\ configVars' = configVars) =>
                (descriptor'[1].id = descriptor[1].id /\ descriptor'[1].info = descriptor[1].info)
        /\ descriptor' # descriptor => (configVars' = configVars /\ callVars' = callVars)
        /\ configVars' = configVars
      ]_vars

\* getModel() has returned while a call is between two chunks of its stream.
C13_Witness ==
    /\ descriptor # None
    /\ descriptor[1].id = Some("")
    /\ descriptor[1].info.contextWindow = 7
    /\ pc = "yieldText"
    /\ timer = "armed"


(***************************************************************************)
(* C14.  One createMessage invocation issues the transport chat request    *)
(* at most once, whatever the outcome of that request.                     *)
(***************************************************************************)
C14_ChatIssuedAtMostOnce == chatCalls <= 1


(***************************************************************************)
(* C15.  Every request createMessage issues carries a message list that    *)
(* starts with one system message holding systemPrompt, followed by the    *)
(* converted conversation messages in their order, a model field equal to  *)
(* the configured model id, and a stream flag equal to the                 *)
(* streaming-enabled option (streaming when the option is unset).          *)
(***************************************************************************)
StreamingEnabled == IF options.ollamaUseStreaming = None THEN TRUE ELSE options.ollamaUseStreaming[1]

C15_RequestAsConfigured ==
    request # None =>
        LET sent == request[1].messages
            conversation == args[1].messages
        IN  /\ Len(sent) = 1 + Len(conversation)
            /\ sent[1] = [role |-> "system", content |-> args[1].systemPrompt]
            /\ \A i \in 1..Len(conversation) :
                    sent[i + 1] = [role |-> conversation[i].role, content |-> conversation[i].content]
            /\ options.ollamaModelId # None => request[1].model = options.ollamaModelId
            /\ request[1].stream = StreamingEnabled


(***************************************************************************)
(* C16.  createMessage is lazy.  Invoking it issues no request and starts  *)
(* no timer: both happen when the caller asks for the first chunk.  The    *)
(* adapter never runs ahead of the caller: it has never emitted more       *)
(* chunks than the caller asked for, and it consumes a transport chunk     *)
(* only while an ask of the caller is unanswered.  `pulls` counts the      *)
(* asks of the caller.                                                     *)
(***************************************************************************)
C16_Lazy ==
    /\ [](/\ pulls = 0 => (request = None /\ timer = "none" /\ consumed = <<>>)
          /\ Len(emitted) <= pulls)
    /\ [][ /\ consumed' # consumed => pulls > Len(emitted)
           /\ (request = None /\ request' # None) => (pulls = 0 /\ pulls' = 1 /\ timer' = "armed")
         ]_vars

\* The call is suspended at its third chunk, the second transport chunk
\* consumed, every ask of the caller answered.
C16_Witness ==
    /\ pc = "yieldUsage"
    /\ Len(consumed) = 2
    /\ Len(emitted) = 3
    /\ pulls = 3


(***************************************************************************)
(* C17.  createMessage raises a timeout error only if the timer expired    *)
(* before the request settled: a call that failed with a timeout error is  *)
(* a call whose race the timer won.                                        *)
(***************************************************************************)
C17_TimeoutOnlyWhenTimerWon ==
    (pc = "failed" /\ IsTimeoutError(error[1])) => (winner = "timer" /\ timer = "fired")


(***************************************************************************)
(* C18.  The timeout bounds only the wait for the initial response.  Once  *)
(* the request has won the race, the expiry of the timer, which is never   *)
(* cleared, changes nothing but the timer: it raises no error, emits no    *)
(* chunk, and leaves the position of the call and what it has consumed as  *)
(* they were; a call waiting for the next chunk of its stream after the    *)
(* expiry can still consume the stream to its end, and what it has emitted *)
(* is the output of what it consumed.                                      *)
(***************************************************************************)
LateExpiry == winner = "request" /\ timer = "fired"

C18_LateExpiryIsInert ==
    /\ [](/\ (LateExpiry /\ pc = "forAwait") => ENABLED StreamEnds
          /\ (LateExpiry /\ Streaming /\ pc \in {"forAwait", "yieldUsage", "done"}) =>
                emitted = ExpectedOutput(consumed))
    /\ [][ (winner = "request" /\ timer = "armed" /\ timer' = "fired") =>
                /\ pc' = pc /\ error' = error /\ emitted' = emitted
                /\ consumed' = consumed /\ cur' = cur /\ winner' = winner
                /\ request' = request /\ apiState' = apiState /\ pulls' = pulls
         ]_vars

\* The timer expired after the request had won the race, and the stream was
\* consumed to its end.
C18_Witness ==
    /\ LateExpiry
    /\ pc = "done"
    /\ consumed = ExampleStream
    /\ emitted = <<Text("a"), Text("b"), Usage(5, 3)>>
    /\ error = None

=============================================================================
